---- MODULE Spec2Model ----
(***************************************************************************)
(* StorageWrapper (src/core/storage/wrapper.ts): a namespaced accessor to  *)
(* a shared asynchronous key/value store, with a FIFO ticket lock          *)
(* (requests / autoIncrement / emitter) and a watchdog interval that       *)
(* calls unlock() every LOCKING_TIMEOUT ms.                                *)
(*                                                                         *)
(* One accessor instance over the namespace "cache" is modelled, used by   *)
(* NumProcs independent callers; the store also holds a sibling namespace  *)
(* "config".  JavaScript runs one task at a time, so an action is the code *)
(* that runs between two suspension points: a call up to its first         *)
(* pending await, or the settling of a store promise together with the     *)
(* synchronous code and microtask continuations that follow it.            *)
(* The store applies a request atomically; the model takes the moment its  *)
(* promise settles as that point.                                          *)
(***************************************************************************)
EXTENDS Integers, Sequences, FiniteSets, TLC

\* ------------------------------------------------------------------ bounds
NumProcs == 3       \* concurrent callers of the accessor
Ticks == 2          \* clock steps per watchdog interval
MaxFailures == 1    \* store requests that may reject in one run

\* --------------------------------------------------------------- constants
LOCKING_TIMEOUT == 3000
TickMs == LOCKING_TIMEOUT \div Ticks

Procs == 1..NumProcs

\* this.namespace of the modelled accessor, and a sibling namespace that a
\* second accessor over the same store owns.
namespace == "cache"
sibling == "config"

\* Values stored under a namespace are objects: functions from top-level
\* keys to values.  {} is the function with the empty domain.
EmptyObject == <<>>
InitialDocument == (namespace :> [a |-> 1]) @@ (sibling :> [y |-> 2])
UpdateArgs == {[b |-> 2], [c |-> [m |-> 3]]}
SetArgs == {[c |-> [n |-> 9]]}

\* A value or null: null is the empty sequence, a value v is <<v>>.
Null == <<>>
Some(v) == <<v>>

\* this.requests[0] of an empty array.
Undefined == -1
NoTicket == -2

VARIABLES
    doc,            \* the store's document: namespace -> object
    requests,       \* this.requests
    autoIncrement,  \* this.autoIncrement
    listeners,      \* ticket ids whose `unlock` closure is registered on the emitter
    elapsed,        \* ms since this.interval was (re)started
    pc,             \* where each caller is
    op,             \* the method each caller is in (or last called)
    data,           \* the argument of that call
    ticket,         \* the id its getLocking() drew
    val,            \* what its read returned
    result,         \* how its last call ended: "none", "ok", "err"
    logged,         \* debugLog(err, 'warn') ran in its setLocking()
    unlockCalls,    \* unlock() calls made by its own code (not by the timer)
    failures,       \* store requests rejected so far
    forced,         \* the watchdog has removed a ticket
    headAge,        \* ms since the current head ticket became head
    intervals       \* setInterval handles that are scheduled

vars == <<doc, requests, autoIncrement, listeners, elapsed, pc, op, data,
          ticket, val, result, logged, unlockCalls, failures, forced, headAge,
          intervals>>

lockVars == <<requests, autoIncrement, listeners, elapsed, intervals>>

\* ------------------------------------------------------------ pure helpers

\* requests[0]
Head0(reqs) == IF reqs = <<>> THEN Undefined ELSE reqs[1]

\* Variants of the slice in unlock(): slice(2) drops two tickets, slice(0)
\* drops none.
SliceTwo(reqs) == IF Len(reqs) <= 1 THEN <<>> ELSE Tail(Tail(reqs))
SliceNone(reqs) == reqs

\* requests.slice(1)
Slice1(reqs) == IF reqs = <<>> THEN <<>> ELSE Tail(reqs)

\* get(): data && namespace in data ? data[namespace] : null
GetNs(d, ns) == IF ns \in DOMAIN d THEN Some(d[ns]) ELSE Null

\* storage.set({[namespace]: data}): the store overwrites the given top-level
\* keys and leaves the others.
DataToSave(ns, v) == ns :> v
StoreSet(d, patch) == patch @@ d

\* Variant of clear(): storage.clear() in place of storage.remove(namespace).
StoreClearAll(d, ns) == <<>>

\* storage.remove(namespace)
StoreRemove(d, ns) == [k \in DOMAIN d \ {ns} |-> d[k]]

\* storageData ?? {}
OrEmpty(v) == IF v = Null THEN EmptyObject ELSE v[1]

\* Variant of the merge with the arguments of Object.assign swapped.
AssignReversed(target, source) == target @@ source

\* Object.assign(target, source)
Assign(target, source) == source @@ target

\* emitter.on('updateLock', unlock) registers the closure of ticket id.
\* emitter.emit('updateLock', toRun) calls every registered closure with
\* toRun (util/emitter, a plain publish/subscribe channel); the closure of
\* ticket id resolves `ready` and removes itself iff toRun === id.  Woken is
\* the set of closures that do.
EmitterOn(ls, id) == ls \cup {id}

\* Variant of the `unlock` closure without its emitter.off call.
OffNothing(ls, ids) == ls

\* emitter.off('updateLock', unlock), run by each closure that resolves.
EmitterOff(ls, ids) == ls \ ids

\* Variant of the `unlock` closure without the toRun === id test.
WokenAll(ls, toRun) == ls

Woken(ls, toRun) == {id \in ls : toRun = id}

InRange(x, lo, hi) == lo <= x /\ x <= hi

\* Variant of unlock() without the clearInterval call.
ClearNothing(n) == n

\* clearInterval(this.interval) and setInterval(...), on the number of
\* scheduled handles.
ClearInterval(n) == IF n > 0 THEN n - 1 ELSE n
SetInterval(n) == n + 1

\* ------------------------------------------------------------------- state

TypeOK ==
    /\ DOMAIN doc \subseteq {namespace, sibling}
    /\ requests \in Seq(0..NumProcs)
    /\ autoIncrement \in 0..NumProcs
    /\ listeners \subseteq 0..NumProcs
    /\ InRange(elapsed, 0, LOCKING_TIMEOUT)
    /\ pc \in [Procs -> {"idle", "wait", "read", "held", "write",
                         "get", "set", "clear", "done"}]
    /\ op \in [Procs -> {"none", "update", "getLocking", "setLocking", "unlock",
                         "get", "set", "clear"}]
    /\ ticket \in [Procs -> {NoTicket} \cup (0..NumProcs)]
    /\ result \in [Procs -> {"none", "ok", "err"}]
    /\ logged \in [Procs -> BOOLEAN]
    /\ unlockCalls \in [Procs -> 0..1]
    /\ InRange(failures, 0, MaxFailures)
    /\ forced \in BOOLEAN
    /\ InRange(headAge, 0, LOCKING_TIMEOUT)
    /\ intervals \in Nat

\* The accessor as constructed: empty queue, counter 0, no listener, the
\* interval just started; no caller has called anything.
Init ==
    /\ doc = InitialDocument
    /\ requests = <<>>
    /\ autoIncrement = 0
    /\ listeners = {}
    /\ elapsed = 0
    /\ pc = [p \in Procs |-> "idle"]
    /\ op = [p \in Procs |-> "none"]
    /\ data = [p \in Procs |-> EmptyObject]
    /\ ticket = [p \in Procs |-> NoTicket]
    /\ val = [p \in Procs |-> Null]
    /\ result = [p \in Procs |-> "none"]
    /\ logged = [p \in Procs |-> FALSE]
    /\ unlockCalls = [p \in Procs |-> 0]
    /\ failures = 0
    /\ forced = FALSE
    /\ headAge = 0
    /\ intervals = SetInterval(0)

\* ------------------------------------------------------------------ unlock

\* The age of the head ticket after a step that turns the queue into reqs.
HeadAgeAfter(reqs, age) == IF Head0(reqs) = Head0(requests) THEN age ELSE 0

\* Variant of unlock() that clears the interval and sets no new one: the
\* timer never comes due again.
IntervalCleared == LOCKING_TIMEOUT + TickMs

\* Milliseconds run on the interval unlock() leaves behind: it is cleared and
\* set anew.
IntervalRestarted == 0

\* Variant of unlock() that emits before it slices: the id sent to the
\* listeners is the head being dropped.
ToRunStale(reqs) == Head0(requests)

\* The id unlock() emits: the head of the sliced queue.
ToRun(reqs) == Head0(reqs)

\* unlock(): drop the head, emit the new head's id to the listeners, restart
\* the interval.  pcf is pc as the calling code leaves it; a woken waiter's
\* `await ready` continues into get(), which issues storage.get().
unlock(pcf) ==
    LET reqs == Slice1(requests)
        woken == Woken(listeners, ToRun(reqs))
    IN  /\ requests' = reqs
        /\ listeners' = EmitterOff(listeners, woken)
        /\ pc' = [q \in Procs |->
                    IF ticket[q] \in woken /\ pcf[q] = "wait" THEN "read" ELSE pcf[q]]
        /\ elapsed' = IntervalRestarted
        /\ intervals' = SetInterval(ClearInterval(intervals))
        /\ headAge' = HeadAgeAfter(reqs, headAge)

\* ---------------------------------------------------------------- the lock

\* Callers are numbered in the order of their calls: caller p is the next to
\* call when it has not called yet and every caller before it has.
NextCaller(p) == pc[p] = "idle" /\ \A q \in 1..(p - 1) : pc[q] # "idle"

\* Variant of the counter that hands out the same id again.
NextIdSame(n) == n

\* this.autoIncrement++: the counter after an id was drawn.
NextId(n) == n + 1

\* Variant of the executor that resolves whatever is queued ahead.
ResolvesAlways(reqs, id) == TRUE

\* this.requests[0] === id: the executor resolves at once.
ResolvesAtOnce(reqs, id) == Head0(reqs) = id

\* The executor of `ready` in getLocking(): draw an id, queue it, resolve at
\* once when it is the head, otherwise register the `unlock` listener.
ready(p, method, arg) ==
    LET id == autoIncrement
        reqs == Append(requests, id)
    IN  /\ NextCaller(p)
        /\ autoIncrement' = NextId(autoIncrement)
        /\ requests' = reqs
        /\ ticket' = [ticket EXCEPT ![p] = id]
        /\ op' = [op EXCEPT ![p] = method]
        /\ data' = [data EXCEPT ![p] = arg]
        /\ IF ResolvesAtOnce(reqs, id)
             THEN /\ pc' = [pc EXCEPT ![p] = "read"]
                  /\ listeners' = listeners
             ELSE /\ pc' = [pc EXCEPT ![p] = "wait"]
                  /\ listeners' = EmitterOn(listeners, id)
        /\ headAge' = HeadAgeAfter(reqs, headAge)
        /\ UNCHANGED <<doc, elapsed, val, result, logged, unlockCalls, failures, forced, intervals>>

\* A caller calls getLocking() itself.
GetLocking(p) == ready(p, "getLocking", EmptyObject)

\* A caller calls update(partial): it starts with getLocking().
Update(p, partial) == ready(p, "update", partial)

\* Variant of update() that merges into what is stored when it writes.
MergedFresh(p) == Assign(OrEmpty(GetNs(doc, namespace)), data[p])

\* The value update() passes to setLocking().
Merged(p) == Assign(OrEmpty(val[p]), data[p])

\* storage.get() of a locking read resolves.  getLocking() returns the
\* namespace's value; update() goes on to setLocking(merged), which issues
\* storage.set().
GetLockingResolve(p) ==
    /\ pc[p] = "read"
    /\ val' = [val EXCEPT ![p] = GetNs(doc, namespace)]
    /\ IF op[p] = "update"
         THEN /\ pc' = [pc EXCEPT ![p] = "write"]
              /\ result' = result
         ELSE /\ pc' = [pc EXCEPT ![p] = "held"]
              /\ result' = [result EXCEPT ![p] = "ok"]
    /\ UNCHANGED <<doc, requests, autoIncrement, listeners, elapsed, op, data, ticket,
                   logged, unlockCalls, failures, forced, headAge, intervals>>

\* storage.get() of a locking read rejects: getLocking() rejects, and so does
\* an update() awaiting it.  Nothing on this path calls unlock().
GetLockingReject(p) ==
    /\ pc[p] = "read"
    /\ failures < MaxFailures
    /\ failures' = failures + 1
    /\ result' = [result EXCEPT ![p] = "err"]
    /\ pc' = [pc EXCEPT ![p] = IF op[p] = "update" THEN "done" ELSE "held"]
    /\ UNCHANGED <<doc, requests, autoIncrement, listeners, elapsed, op, data, ticket,
                   val, logged, unlockCalls, forced, headAge, intervals>>

\* A caller that went through getLocking() calls setLocking(value).
SetLocking(p, value) ==
    /\ pc[p] = "held"
    /\ pc' = [pc EXCEPT ![p] = "write"]
    /\ op' = [op EXCEPT ![p] = "setLocking"]
    /\ data' = [data EXCEPT ![p] = value]
    /\ result' = [result EXCEPT ![p] = "none"]
    /\ UNCHANGED <<doc, requests, autoIncrement, listeners, elapsed, ticket, val,
                   logged, unlockCalls, failures, forced, headAge, intervals>>

\* The value in flight to the store in setLocking().
Writing(p) == IF op[p] = "update" THEN Merged(p) ELSE data[p]

\* What the caller of setLocking() sees when it ends.
SetLockingOutcome(rejected) == "ok"

\* Variant of setLocking() with unlock() inside the try block, after the
\* awaited set(): a rejection skips it.
UnlocksOnSuccessOnly(rejected) == IF rejected THEN 0 ELSE 1

\* unlock() calls setLocking() makes once set() has settled.
SetLockingUnlocks(rejected) == 1

\* setLocking(): set() has settled (resolved, or rejected and logged); then
\* unlock().
SetLockingSettle(p, rejected) ==
    /\ pc[p] = "write"
    /\ IF rejected
         THEN /\ failures < MaxFailures
              /\ failures' = failures + 1
              /\ logged' = [logged EXCEPT ![p] = TRUE]
              /\ doc' = doc
         ELSE /\ doc' = StoreSet(doc, DataToSave(namespace, Writing(p)))
              /\ UNCHANGED <<failures, logged>>
    /\ result' = [result EXCEPT ![p] = SetLockingOutcome(rejected)]
    /\ IF SetLockingUnlocks(rejected) = 1
         THEN /\ unlock([pc EXCEPT ![p] = "done"])
              /\ unlockCalls' = [unlockCalls EXCEPT ![p] = @ + 1]
         ELSE /\ pc' = [pc EXCEPT ![p] = "done"]
              /\ UNCHANGED <<requests, listeners, elapsed, headAge, unlockCalls, intervals>>
    /\ val' = [val EXCEPT ![p] = Null]
    /\ UNCHANGED <<autoIncrement, op, data, ticket, forced>>

\* A caller that went through getLocking() calls unlock() itself.
Unlock(p) ==
    /\ pc[p] = "held"
    /\ unlock([pc EXCEPT ![p] = "done"])
    /\ op' = [op EXCEPT ![p] = "unlock"]
    /\ unlockCalls' = [unlockCalls EXCEPT ![p] = @ + 1]
    /\ val' = [val EXCEPT ![p] = Null]
    /\ UNCHANGED <<doc, autoIncrement, data, ticket, result, logged, failures, forced>>

\* ------------------------------------------------------ non-locking methods

\* A call of get(), set(data) or clear(): the store request is issued.
Call(p, method, arg) ==
    /\ NextCaller(p)
    /\ pc' = [pc EXCEPT ![p] = method]
    /\ op' = [op EXCEPT ![p] = method]
    /\ data' = [data EXCEPT ![p] = arg]
    /\ UNCHANGED <<doc, requests, autoIncrement, listeners, elapsed, ticket, val, result,
                   logged, unlockCalls, failures, forced, headAge, intervals>>

Get(p) == Call(p, "get", EmptyObject)
Set(p, value) == Call(p, "set", value)
Clear(p) == Call(p, "clear", EmptyObject)

\* The document after the store request of a non-locking method is applied.
Applied(p) ==
    CASE pc[p] = "set" -> StoreSet(doc, DataToSave(namespace, data[p]))
      [] pc[p] = "clear" -> StoreRemove(doc, namespace)
      [] OTHER -> doc

\* Variant in which the non-locking methods release like setLocking().
ResolveUnlocking(p) ==
    /\ pc[p] \in {"get", "set", "clear"}
    /\ doc' = Applied(p)
    /\ val' = [val EXCEPT ![p] = IF pc[p] = "get" THEN GetNs(doc, namespace) ELSE @]
    /\ result' = [result EXCEPT ![p] = "ok"]
    /\ unlock([pc EXCEPT ![p] = "done"])
    /\ UNCHANGED <<autoIncrement, op, data, ticket, logged, unlockCalls, failures, forced>>

\* The request of get(), set() or clear() resolves.
Resolve(p) ==
    /\ pc[p] \in {"get", "set", "clear"}
    /\ doc' = Applied(p)
    /\ val' = [val EXCEPT ![p] = IF pc[p] = "get" THEN GetNs(doc, namespace) ELSE @]
    /\ result' = [result EXCEPT ![p] = "ok"]
    /\ pc' = [pc EXCEPT ![p] = "done"]
    /\ UNCHANGED <<requests, autoIncrement, listeners, elapsed, op, data, ticket,
                   logged, unlockCalls, failures, forced, headAge, intervals>>

\* The request of get(), set() or clear() rejects: the method rejects.
Reject(p) ==
    /\ pc[p] \in {"get", "set", "clear"}
    /\ failures < MaxFailures
    /\ failures' = failures + 1
    /\ result' = [result EXCEPT ![p] = "err"]
    /\ pc' = [pc EXCEPT ![p] = "done"]
    /\ UNCHANGED <<doc, requests, autoIncrement, listeners, elapsed, op, data, ticket,
                   val, logged, unlockCalls, forced, headAge, intervals>>

\* ------------------------------------------------------------ the watchdog

\* Time passes, up to the moment the interval is due.
Tick ==
    /\ elapsed < LOCKING_TIMEOUT
    /\ elapsed' = elapsed + TickMs
    /\ headAge' = IF requests = <<>> THEN 0 ELSE headAge + TickMs
    /\ UNCHANGED <<doc, requests, autoIncrement, listeners, pc, op, data, ticket, val,
                   result, logged, unlockCalls, failures, forced, intervals>>

\* The interval fires: unlock().
Watchdog ==
    /\ elapsed = LOCKING_TIMEOUT
    /\ unlock(pc)
    /\ forced' = (forced \/ requests # <<>>)
    /\ UNCHANGED <<doc, autoIncrement, op, data, ticket, val, result, logged,
                   unlockCalls, failures>>

\* ------------------------------------------------------------ specification

Next ==
    \/ \E p \in Procs : GetLocking(p)
    \/ \E p \in Procs, partial \in UpdateArgs : Update(p, partial)
    \/ \E p \in Procs : GetLockingResolve(p)
    \/ \E p \in Procs : GetLockingReject(p)
    \/ \E p \in Procs, value \in SetArgs : SetLocking(p, value)
    \/ \E p \in Procs, rejected \in BOOLEAN : SetLockingSettle(p, rejected)
    \/ \E p \in Procs : Unlock(p)
    \/ \E p \in Procs : Get(p)
    \/ \E p \in Procs, value \in SetArgs : Set(p, value)
    \/ \E p \in Procs : Clear(p)
    \/ \E p \in Procs : Resolve(p)
    \/ \E p \in Procs : Reject(p)
    \/ Tick
    \/ Watchdog

Spec == Init /\ [][Next]_vars

\* The timer keeps running: time passes and a due interval fires.
FairSpec == Spec /\ WF_vars(Tick) /\ WF_vars(Watchdog)

\* ------------------------------------------------------------------ claims

Range(seq) == {seq[i] : i \in DOMAIN seq}

\* The lock wait (`ready`) of p's getLocking() has resolved.
Granted(p) == ticket[p] # NoTicket /\ pc[p] \notin {"idle", "wait"}

\* p's update() has returned normally and its write reached the store.
UpdateStored(p) ==
    op[p] = "update" /\ pc[p] = "done" /\ result[p] = "ok" /\ ~logged[p]

\* C1: concurrent update() calls on one instance lose no update, whatever the
\* interleaving with each other and with watchdog firings: once the updates
\* have all returned (no store request failed, nothing else was called), the
\* value under the namespace holds the initial keys and every update's keys.
C1_NoLostUpdate ==
    (/\ failures = 0
     /\ \A p \in Procs : pc[p] = "idle" \/ UpdateStored(p))
    => /\ namespace \in DOMAIN doc
       /\ \A k \in DOMAIN InitialDocument[namespace] :
            /\ k \in DOMAIN doc[namespace]
            /\ doc[namespace][k] = InitialDocument[namespace][k]
       /\ \A p \in Procs : UpdateStored(p) =>
            \A k \in DOMAIN data[p] :
                /\ k \in DOMAIN doc[namespace]
                /\ doc[namespace][k] = data[p][k]

\* p is between the resolution of its getLocking() and its own
\* setLocking() / unlock().
Holding(p) == pc[p] = "held" /\ result[p] = "ok"

\* C2: once getLocking() has resolved for a caller, no second getLocking()
\* resolves before that caller has issued its setLocking() or unlock(): at
\* most one caller is between the two at any time.
C2_OneHolder == Cardinality({p \in Procs : Holding(p)}) <= 1

\* C3: lock waits resolve in the order the tickets were drawn: a step grants
\* at most one ticket, and every ticket drawn before it was granted earlier.
C3_GrantOrder ==
    [][\A p \in Procs :
         (~Granted(p) /\ Granted(p)') =>
            /\ \A q \in Procs \ {p} : Granted(q)' => Granted(q)
            /\ \A q \in Procs :
                 (ticket'[q] # NoTicket /\ ticket'[q] < ticket'[p]) => Granted(q)]_vars

\* Three tickets were granted in turn, one release forced by the watchdog and
\* one made by an explicit unlock().
C3_Witness ==
    /\ \A p \in Procs : Granted(p)
    /\ forced
    /\ \E p \in Procs : op[p] = "unlock" /\ pc[p] = "done"

\* C4: with the timer running, every ticket in the queue is eventually
\* granted and removed from the queue, whatever the holders ahead of it do.
C4_Progress ==
    \A p \in Procs :
        (ticket[p] \in Range(requests))
            ~> (Granted(p) /\ ticket[p] \notin Range(requests))

\* A holder that never released has lost its ticket to the watchdog, and the
\* ticket behind it was served and removed as well.
C4_Witness ==
    /\ forced
    /\ requests = <<>>
    /\ \A p \in Procs : unlockCalls[p] = 0
    /\ \E p, q \in Procs :
        /\ pc[p] = "held" /\ pc[q] = "held"
        /\ ticket[p] < ticket[q]

\* A step in which the interval fires on a queue with a ticket behind the
\* head: the timer was due and restarts, and no caller's code called unlock().
ForcedRelease ==
    /\ elapsed = LOCKING_TIMEOUT
    /\ elapsed' = 0
    /\ unlockCalls' = unlockCalls
    /\ Len(requests) >= 2

\* C5: a head ticket whose holder never unlocks is removed by the watchdog no
\* later than LOCKING_TIMEOUT after it became head (the later of the previous
\* release and its own acquire); in that step the next ticket becomes head
\* and its lock wait resolves, with no explicit unlock().
C5_BoundedHold ==
    /\ [](requests # <<>> => headAge <= LOCKING_TIMEOUT)
    /\ [][ForcedRelease =>
            /\ requests' = Tail(requests)
            /\ headAge' = 0
            /\ \E q \in Procs :
                /\ ticket[q] = requests[2]
                /\ ~Granted(q)
                /\ Granted(q)']_vars

\* The holder of the first ticket never released; a full interval after it
\* became head the watchdog has just handed the lock to the next ticket.
C5_Witness ==
    /\ forced
    /\ elapsed = 0
    /\ \A p \in Procs : unlockCalls[p] = 0
    /\ \E p, q \in Procs :
        /\ Holding(p)
        /\ ticket[q] = ticket[p] + 1
        /\ pc[q] = "read"
        /\ Head0(requests) = ticket[q]

\* C6: setLocking() calls unlock() exactly once after the write attempt,
\* whether storage.set resolved or rejected; on a rejection it still returns
\* normally, the error is logged, and the head of the queue is gone.
C6_SetLockingReleases ==
    [][\A p \in Procs :
         (pc[p] = "write" /\ pc'[p] = "done") =>
            /\ unlockCalls'[p] = unlockCalls[p] + 1
            /\ requests' = Slice1(requests)
            /\ elapsed' = 0
            /\ result'[p] = "ok"
            /\ (failures' # failures) => (logged'[p] /\ doc' = doc)]_vars

\* storage.set rejected in a setLocking() that held the head ticket: the call
\* returned normally, the error was logged and the ticket is gone.
C6_Witness ==
    \E p \in Procs :
        /\ pc[p] = "done"
        /\ logged[p]
        /\ result[p] = "ok"
        /\ unlockCalls[p] = 1
        /\ ~forced
        /\ ticket[p] \notin Range(requests)

\* C7: every exit of update(), normal or by failure, has released the ticket
\* it drew: a returned update() leaves no ticket of its own in the queue.
C7_UpdateReleases ==
    \A p \in Procs :
        (op[p] = "update" /\ pc[p] = "done") => ticket[p] \notin Range(requests)

\* C8: nothing the accessor of one namespace does (set, setLocking, update,
\* clear) changes what an accessor of another namespace reads.
C8_NamespaceIsolation == GetNs(doc, sibling) = GetNs(InitialDocument, sibling)

\* clear(), set() and an update() of "cache" have all gone through.
C8_Witness ==
    \E p, q, r \in Procs :
        /\ op[p] = "clear" /\ pc[p] = "done" /\ result[p] = "ok"
        /\ op[q] = "set" /\ pc[q] = "done" /\ result[q] = "ok"
        /\ UpdateStored(r)

NonLocking == {"get", "set", "clear"}

\* C9: get(), set() and clear() never touch the lock: their steps leave the
\* queue, the counter, the listeners and the timer as they are and wake no
\* waiter, and their completion never depends on the lock.
C9_NonLockingFrame ==
    /\ [](\A p \in Procs : pc[p] \in NonLocking => ENABLED Resolve(p))
    /\ [][\A p \in Procs :
            (pc[p] # pc'[p] /\ (pc[p] \in NonLocking \/ pc'[p] \in NonLocking)) =>
                /\ UNCHANGED lockVars
                /\ UNCHANGED <<ticket, unlockCalls>>
                /\ \A q \in Procs \ {p} : pc'[q] = pc[q]]_vars

\* set() ran to completion while one caller held the lock and another waited.
C9_Witness ==
    \E p, q, r \in Procs :
        /\ op[p] = "set" /\ pc[p] = "done" /\ result[p] = "ok"
        /\ Holding(q) /\ Head0(requests) = ticket[q]
        /\ pc[r] = "wait"
        /\ ~forced

\* C10: update() writes the merge of what it read, whatever was stored in
\* between: when its write resolves, the namespace holds exactly the keys it
\* read and the keys of its argument, so a set() or clear() that ran between
\* its read and its write is lost.
C10_StaleWrite ==
    [][\A p \in Procs :
         (op[p] = "update" /\ pc[p] = "write" /\ pc'[p] = "done" /\ failures' = failures) =>
            /\ namespace \in DOMAIN doc'
            /\ DOMAIN doc'[namespace] = DOMAIN OrEmpty(val[p]) \cup DOMAIN data[p]]_vars

\* set() resolved and update() returned, the lock never forced, yet the
\* namespace holds the initial value merged with update's argument:
\* set() ran between update's read and its write.
C10_Witness ==
    \E p, q \in Procs :
        /\ op[p] = "set" /\ pc[p] = "done" /\ result[p] = "ok"
        /\ UpdateStored(q)
        /\ \A r \in Procs \ {p, q} : pc[r] = "idle"
        /\ ~forced
        /\ failures = 0
        /\ doc[namespace] = Assign(InitialDocument[namespace], data[q])

\* A step in which unlock() runs: called by a caller's code, or by the
\* interval coming due.
UnlockStep ==
    \/ unlockCalls' # unlockCalls
    \/ (elapsed = LOCKING_TIMEOUT /\ elapsed' # elapsed)

\* Callers whose lock wait is pending before a step and resolved after it.
WokenBy == {q \in Procs : pc[q] = "wait" /\ pc'[q] # "wait"}

\* C11: one unlock() removes the head of the queue and nothing else: the
\* other tickets keep their order and the second becomes head; on an empty
\* queue it leaves the queue empty, wakes nobody and only restarts the
\* interval.  No other step removes a ticket.
C11_UnlockDropsHead ==
    [][/\ UnlockStep =>
            IF requests = <<>>
              THEN /\ requests' = <<>>
                   /\ WokenBy = {}
                   /\ listeners' = listeners
                   /\ <<autoIncrement, ticket>>' = <<autoIncrement, ticket>>
                   /\ elapsed' = 0
              ELSE /\ Len(requests') = Len(requests) - 1
                   /\ \A i \in DOMAIN requests' : requests'[i] = requests[i + 1]
       /\ (~UnlockStep) =>
            \A i \in DOMAIN requests : i \in DOMAIN requests' /\ requests'[i] = requests[i]]_vars

\* A caller's unlock() took ticket 0 off a queue of three: tickets 1 and 2 are
\* left in their order.
C11_Witness ==
    /\ requests = <<1, 2>>
    /\ ~forced
    /\ \E p \in Procs : ticket[p] = 0 /\ unlockCalls[p] = 1

\* C12: an unlock() resolves the lock wait of at most one pending
\* getLocking(), the one whose ticket is the new head, and of none when the
\* queue becomes empty; no other step resolves a pending wait, and all other
\* waiters stay suspended.
C12_WakesNewHeadOnly ==
    [][/\ Cardinality(WokenBy) <= 1
       /\ \A q \in WokenBy :
            /\ UnlockStep
            /\ requests' # <<>>
            /\ ticket[q] = requests'[1]
       /\ \A q \in Procs :
            (UnlockStep /\ pc[q] = "wait" /\ requests' # <<>> /\ ticket[q] = requests'[1])
                => q \in WokenBy]_vars

\* The waiter with ticket 1 was woken by an unlock(); the waiter with ticket 2
\* is still suspended.
C12_Witness ==
    /\ requests = <<1, 2>>
    /\ \E q, r \in Procs :
        /\ ticket[q] = 1 /\ pc[q] = "read"
        /\ ticket[r] = 2 /\ pc[r] = "wait"

C14_TicketsIncrease ==
    /\ [](/\ \A i, j \in DOMAIN requests : i < j => requests[i] < requests[j]
          /\ \A p, q \in Procs :
                (p # q /\ ticket[p] # NoTicket /\ ticket[q] # NoTicket)
                    => ticket[p] # ticket[q]
          /\ \A p \in Procs : ticket[p] < autoIncrement)
    /\ [][\A p \in Procs :
            (ticket[p] = NoTicket /\ ticket'[p] # NoTicket) =>
                \A q \in Procs : ticket[q] # NoTicket => ticket[q] < ticket'[p]]_vars

\* Three tickets were drawn and all three are queued.
C14_Witness ==
    /\ requests = <<0, 1, 2>>
    /\ autoIncrement = 3

\* C15: the watchdog is one recurring timer that every release restarts:
\* exactly one interval is scheduled at any time, every unlock() clears it and
\* starts a full one, and a ticket leaves the queue without an unlock() call
\* of a caller only when a full interval has passed since the last unlock().
C15_OneTimerRestarted ==
    /\ [](intervals = 1)
    /\ [][UnlockStep => (elapsed' = 0 /\ intervals' = 1)]_vars
    /\ [][(Len(requests') < Len(requests) /\ unlockCalls' = unlockCalls)
            => elapsed = LOCKING_TIMEOUT]_vars

\* A caller's unlock() restarted the interval, and later a full interval
\* passed and the watchdog removed a ticket; one interval is scheduled.
C15_Witness ==
    /\ forced
    /\ elapsed = 0
    /\ intervals = 1
    /\ \E p \in Procs : unlockCalls[p] = 1

\* C16: update(partial) writes the shallow merge of the value it read with
\* partial: each key of partial has partial's value (a nested object is
\* replaced whole), each other key read keeps the value read, and when the
\* read returned null the value written is partial.
C16_ShallowMerge ==
    [][\A p \in Procs :
         (op[p] = "update" /\ pc[p] = "write" /\ pc'[p] = "done" /\ failures' = failures) =>
            LET base == OrEmpty(val[p])
                written == doc'[namespace]
            IN  /\ \A k \in DOMAIN data[p] : written[k] = data[p][k]
                /\ \A k \in DOMAIN base \ DOMAIN data[p] : written[k] = base[k]
                /\ (val[p] = Null) => (written = data[p])]_vars

\* update({c:{m:3}}) read {c:{n:9}}, stored by a set() before it, and wrote
\* {c:{m:3}}: the nested object was replaced, not merged.
C16_Witness ==
    \E p, q \in Procs :
        /\ op[p] = "set" /\ pc[p] = "done" /\ result[p] = "ok"
        /\ UpdateStored(q)
        /\ data[p] = [c |-> [n |-> 9]]
        /\ data[q] = [c |-> [m |-> 3]]
        /\ doc[namespace] = [c |-> [m |-> 3]]
        /\ failures = 0

\* C17: a store failure in get(), set(), clear() or the read of getLocking()
\* reaches the caller as a failure; in getLocking() it arrives after the
\* ticket was granted and while the ticket is still in the queue.
C17_FailureDelivered ==
    [][\A p \in Procs :
         (failures' # failures /\ pc'[p] # pc[p] /\ pc[p] \in NonLocking \cup {"read"}) =>
            /\ result'[p] = "err"
            /\ (pc[p] = "read") => (Granted(p) /\ ticket[p] \in Range(requests'))]_vars

\* C18: no ticket is dropped unserved: the head of the queue is always a
\* granted ticket, a step removes a ticket only after its lock wait has
\* resolved, and so every ticket that has left the queue was granted.
C18_NoTicketUnserved ==
    /\ [](/\ requests # <<>> => \E p \in Procs : ticket[p] = requests[1] /\ Granted(p)
          /\ \A p \in Procs :
                (ticket[p] # NoTicket /\ ticket[p] \notin Range(requests)) => Granted(p))
    /\ [][\A p \in Procs :
            (ticket[p] \in Range(requests) /\ ticket[p] \notin Range(requests'))
                => Granted(p)]_vars

\* The watchdog took the first holder's ticket, that holder's own unlock()
\* then took the ticket of the second, and the third was served in turn.
C18_Witness ==
    /\ forced
    /\ \E p, q, r \in Procs :
        /\ ticket[p] = 0 /\ op[p] = "unlock" /\ pc[p] = "done"
        /\ ticket[q] = 1 /\ Holding(q) /\ unlockCalls[q] = 0
        /\ ticket[r] = 2 /\ Granted(r) /\ unlockCalls[r] = 0
        /\ requests = <<2>>

\* C19: the registered 'updateLock' listeners are those of the tickets queued
\* behind the head, which are the pending waits; a ticket granted at once
\* registers none, and a woken waiter's listener is removed in that step.
C19_ListenersMatchWaiters ==
    /\ [](/\ listeners = Range(requests) \ {Head0(requests)}
          /\ listeners = {ticket[p] : p \in {q \in Procs : pc[q] = "wait"}})
    /\ [][/\ \A q \in WokenBy : ticket[q] \in listeners /\ ticket[q] \notin listeners'
          /\ \A p \in Procs :
                (ticket[p] = NoTicket /\ ticket'[p] # NoTicket /\ pc'[p] # "wait")
                    => listeners' = listeners]_vars

\* Ticket 1 was woken by a caller's unlock() and its listener is gone; only
\* the listener of ticket 2, still waiting, is registered.
C19_Witness ==
    /\ requests = <<1, 2>>
    /\ listeners = {2}
    /\ \E p \in Procs : ticket[p] = 0 /\ unlockCalls[p] = 1

====
